---- MODULE Spec2Model ----
(***************************************************************************)
(* Model of the job-orchestration core of DDP_backend:                     *)
(*   - the celery tasks of ddpui/celeryworkers/tasks.py                    *)
(*     (clone_github_repo, setup_dbtworkspace, run_dbt_commands and the    *)
(*     two lock sweeps), and                                               *)
(*   - the airbyte client of ddpui/ddpairbyte/airbyte_service.py           *)
(*     (create_connection / update_connection and what they call).         *)
(* Three specifications share the module: Spec (the tasks, two concurrent  *)
(* runs for one organization), LockSpec (the sweeps) and ConnSpec (the     *)
(* connection operations).                                                 *)
(***************************************************************************)
EXTENDS Integers, Sequences, FiniteSets, TLC

VARIABLES
    \* ---- per run of a task (tasks.py) ----
    pc,          \* position of the run in its task
    kind,        \* which task the run executes
    child,       \* clone_github_repo: the `child` local
    token,       \* gitrepo_access_token / payload["gitrepoAccessToken"]
    events,      \* the events handed to taskprogress.add, in order
    calls,       \* the external calls the run made, in order, with their results
    localOrg,    \* the run's in-memory `org` object
    profile,     \* run_dbt_commands: the `profile` local
    \* ---- shared: database, filesystem, secret store ----
    org,         \* the Org row: [slug, dbt]
    warehouse,   \* an OrgWarehouse row exists for the org
    orgdbts,     \* the saved OrgDbt rows (by id)
    cliBlock,    \* an OrgPrefectBlockv1 row of type DBTCLIPROFILE exists
    projectDir,  \* project_dir exists
    dbtrepo,     \* dbtrepo_dir exists
    files,       \* what dbtrepo_dir holds
    secret,      \* the github token held by the secret store
    \* ---- lock tables and the clock (sweeps) ----
    blocklocks,  \* the BlockLock rows: [id, locked_at]
    tasklocks,   \* the TaskLock rows: [id, locked_at]
    finished,    \* the locks whose holder has finished without releasing
    now,         \* datetime.utcnow(), in seconds
    ticks,       \* how often the clock has advanced
    swept,       \* the last sweep: its kind, its time and what it deleted
    due,         \* the sweeps the beat has sent that have not run yet
    \* ---- one call of an airbyte_service connection operation ----
    call,        \* the operation called and its arguments
    requests,    \* the requests abreq sent for it, in order, with the responses
    result       \* what the call returned or raised

taskVars == <<pc, kind, child, token, events, calls, localOrg, profile,
              org, warehouse, orgdbts, cliBlock, projectDir, dbtrepo, files, secret>>
lockVars == <<blocklocks, tasklocks, finished, now, ticks, swept, due>>
connVars == <<call, requests, result>>
vars == <<taskVars, lockVars, connVars>>

None == "None"

\* The two task executions that may overlap for the organization.
Runs == {"r1", "r2"}

\* Access tokens a caller may pass (None: no token).
Tokens == {None, "tok", "tok2"}

\* Captured stdout of a dbt process, as characters ("\n" is the newline).
Stdouts == {<<"a">>, <<"a", "\n", "b">>}

\* Profile blocks the prefect proxy may return.
Profiles == {"p1", "p2"}

\* payload["gitrepoUrl"], as the parts that str.replace looks at.
GitrepoUrl == <<"https://", "github.com", "/org/repo">>

Last(s) == s[Len(s)]

(***************************************************************************)
(* Pure helpers of tasks.py                                                *)
(***************************************************************************)

\* str.replace("github.com", "oauth2:" + token + "@github.com")
RECURSIVE ReplaceHost(_, _)
ReplaceHost(url, tok) ==
    IF url = <<>> THEN <<>>
    ELSE (IF Head(url) = "github.com"
            THEN <<"oauth2:", tok, "@github.com">>
            ELSE <<Head(url)>>) \o ReplaceHost(Tail(url), tok)

\* tasks.py 45-48: the url the clone command is built from
CloneUrl(url, tok) == IF tok # None THEN ReplaceHost(url, tok) ELSE url

\* tasks.py 65: cmd = f"git clone {gitrepo_url} dbtrepo"
CloneCmd(url, tok) == <<"git clone ">> \o CloneUrl(url, tok) \o <<" dbtrepo">>

\* str.split("\n") on the decoded stdout: the lines, at least one
RECURSIVE SplitLines(_, _)
SplitLines(s, cur) ==
    IF s = <<>> THEN <<cur>>
    ELSE IF Head(s) = "\n" THEN <<cur>> \o SplitLines(Tail(s), <<>>)
    ELSE SplitLines(Tail(s), Append(cur, Head(s)))

\* process.stdout.decode("utf-8").split("\n")
CommandOutput(stdout) == SplitLines(stdout, <<>>)

\* str(error) of a subprocess.CalledProcessError: the command and the exit
\* status, never the captured output
StrCalledProcessError(cmd, code) ==
    <<"Command ", cmd, " returned non-zero exit status ", code>>

\* str(error) of the exception runcmd raised for the clone command
StrCloneError(exc, cmd) ==
    IF exc = "CalledProcessError" THEN StrCalledProcessError(cmd, 128)
    ELSE <<"OSError">>

\* the dicts handed to taskprogress.add
Ev(msg, st) == [message |-> msg, status |-> st]
EvErr(msg, err) == [message |-> msg, error |-> err, status |-> "failed"]
EvOut(msg, out) == [message |-> msg, status |-> "running", output |-> out]

\* taskprogress.add(event) by run r
Add(r, e) == events' = [events EXCEPT ![r] = Append(@, e)]
Add2(r, e1, e2) == events' = [events EXCEPT ![r] = Append(Append(@, e1), e2)]
\* run r made the external call op, which ended res and gave out
Did(r, op, res, out) ==
    calls' = [calls EXCEPT ![r] = Append(@, [op |-> op, res |-> res, out |-> out])]
Goto(r, p) == pc' = [pc EXCEPT ![r] = p]


dbVars == <<org, warehouse, orgdbts, cliBlock>>
fsVars == <<projectDir, dbtrepo, files>>
otherVars == <<lockVars, connVars>>

(***************************************************************************)
(* clone_github_repo (tasks.py 27-86), standalone or as the child step of  *)
(* setup_dbtworkspace                                                      *)
(***************************************************************************)

\* the task is dispatched on its own: taskprogress is None, child = False
StartClone(r) ==
    /\ pc[r] = "idle"
    /\ \E tok \in Tokens : token' = [token EXCEPT ![r] = tok]
    /\ kind' = [kind EXCEPT ![r] = "clone"]
    /\ child' = [child EXCEPT ![r] = FALSE]
    /\ Goto(r, "c_check")
    /\ UNCHANGED <<events, calls, localOrg, profile, dbVars, fsVars, secret, otherVars>>

\* 52, 62: project_dir.exists() / dbtrepo_dir.exists()
CloneCheckDir(r) ==
    /\ pc[r] = "c_check"
    /\ Goto(r, IF ~projectDir THEN "c_mkdir"
               ELSE IF dbtrepo THEN "c_rmtree" ELSE "c_clone")
    /\ UNCHANGED <<kind, child, token, events, calls, localOrg, profile,
                   dbVars, fsVars, secret, otherVars>>

\* 53-60: project_dir.mkdir() raises FileExistsError when another run made
\* the directory since the check
CloneMkdir(r) ==
    /\ pc[r] = "c_mkdir"
    /\ IF projectDir
         THEN /\ Did(r, "mkdir", "error", <<>>)
              /\ Goto(r, "crashed")
              /\ UNCHANGED <<events, projectDir>>
         ELSE /\ projectDir' = TRUE
              /\ Did(r, "mkdir", "ok", <<>>)
              /\ Add(r, Ev("created project_dir", "running"))
              /\ Goto(r, "c_clone")
    /\ UNCHANGED <<kind, child, token, localOrg, profile, dbVars, dbtrepo, files,
                   secret, otherVars>>

\* 63: shutil.rmtree(dbtrepo_dir) raises when the directory is gone
CloneRmtree(r) ==
    /\ pc[r] = "c_rmtree"
    /\ IF ~dbtrepo
         THEN /\ Did(r, "rmtree", "error", <<>>)
              /\ Goto(r, "crashed")
              /\ UNCHANGED <<dbtrepo, files>>
         ELSE /\ dbtrepo' = FALSE
              /\ files' = {}
              /\ Did(r, "rmtree", "ok", <<>>)
              /\ Goto(r, "c_clone")
    /\ UNCHANGED <<kind, child, token, events, localOrg, profile, dbVars,
                   projectDir, secret, otherVars>>

\* fault: setup_dbtworkspace goes on whatever clone_github_repo returned
AfterCloneIgnoresResult(r, ok) ==
    IF child[r] THEN "s_dbtsave" ELSE "done"

\* where clone_github_repo returns to: its caller setup_dbtworkspace (122-130)
\* or the end of the task
AfterClone(r, ok) ==
    IF child[r] /\ ok THEN "s_dbtsave" ELSE "done"

\* fault: the clone reports "completed" even as the child step of a setup
ClonedEventAlwaysCompleted(r) == Ev("cloned git repo", "completed")

\* 80-85: the event of a successful clone
ClonedEvent(r) ==
    Ev("cloned git repo", IF child[r] THEN "running" ELSE "completed")

\* 69-78: the event of a failed clone
CloneFailedEvent(r, exc) ==
    EvErr("git clone failed", StrCloneError(exc, CloneCmd(GitrepoUrl, token[r])))

\* 60, 77: what clone_github_repo hands to the logger for an event it adds:
\* the project_dir after mkdir, the exception after a failed clone
CloneLogRecord(e) ==
    IF e.message = "created project_dir" THEN <<<<"created project_dir ", "project_dir">>>>
    ELSE IF e.message = "git clone failed" THEN <<e.error>>
    ELSE <<>>

\* the log records of clone_github_repo in run r, in order
RECURSIVE CloneLogOf(_)
CloneLogOf(evs) ==
    IF evs = <<>> THEN <<>> ELSE CloneLogRecord(Head(evs)) \o CloneLogOf(Tail(evs))
CloneLog(r) == CloneLogOf(events[r])

\* fault: git clones into a directory that exists and holds files
GitAcceptsAny(exists) == TRUE

\* 65: "git clone <url> dbtrepo" refuses a destination that exists and is
\* not empty
GitAccepts(exists) == ~exists

\* what dbtrepo holds after run r cloned into it
ClonedInto(held, r) == held \cup {<<"cloned", r>>}

\* 65-86: runcmd(cmd, project_dir); every exception is caught
CloneRun(r) ==
    /\ pc[r] = "c_clone"
    /\ \/ /\ GitAccepts(dbtrepo)
          /\ Did(r, "git clone", "ok", <<>>)
          /\ dbtrepo' = TRUE
          /\ files' = ClonedInto(files, r)
          /\ Add(r, ClonedEvent(r))
          /\ Goto(r, AfterClone(r, TRUE))
       \/ /\ \E exc \in {"CalledProcessError", "OSError"} :
                /\ Did(r, "git clone", "error", <<exc>>)
                /\ Add(r, CloneFailedEvent(r, exc))
          /\ Goto(r, AfterClone(r, FALSE))
          /\ UNCHANGED <<dbtrepo, files>>
    /\ UNCHANGED <<kind, child, token, localOrg, profile, dbVars, projectDir,
                   secret, otherVars>>

(***************************************************************************)
(* setup_dbtworkspace (tasks.py 89-156)                                    *)
(***************************************************************************)

\* 92-101: the "started" event, then the org row is read into memory
StartSetup(r) ==
    /\ pc[r] = "idle"
    /\ \E tok \in Tokens : token' = [token EXCEPT ![r] = tok]
    /\ kind' = [kind EXCEPT ![r] = "setup"]
    /\ child' = [child EXCEPT ![r] = TRUE]
    /\ Add(r, Ev("started", "running"))
    /\ localOrg' = [localOrg EXCEPT ![r] = org]
    /\ Goto(r, "s_warehouse")
    /\ UNCHANGED <<calls, profile, dbVars, fsVars, secret, otherVars>>

\* 103-112: no warehouse: one failed event and return
SetupCheckWarehouse(r) ==
    /\ pc[r] = "s_warehouse"
    /\ IF ~warehouse
         THEN /\ Add(r, Ev("need to set up a warehouse first", "failed"))
              /\ Goto(r, "done")
         ELSE /\ Goto(r, "s_slug")
              /\ UNCHANGED events
    /\ UNCHANGED <<kind, child, token, calls, localOrg, profile, dbVars, fsVars,
                   secret, otherVars>>

\* 114-116: the slug is generated once; org.save() writes the whole in-memory
\* row, and a database error leaves the task by exception
SetupSlug(r) ==
    /\ pc[r] = "s_slug"
    /\ IF localOrg[r].slug = None
         THEN \/ /\ localOrg' = [localOrg EXCEPT ![r].slug = "slug"]
                 /\ org' = localOrg'[r]
                 /\ Did(r, "org.save", "ok", <<org.dbt, org'.dbt>>)
                 /\ Goto(r, "c_check")
              \/ /\ Did(r, "org.save", "error", <<org.dbt, org.dbt>>)
                 /\ Goto(r, "crashed")
                 /\ UNCHANGED <<localOrg, org>>
         ELSE /\ Goto(r, "c_check")
              /\ UNCHANGED <<localOrg, org, calls>>
    /\ UNCHANGED <<kind, child, token, events, profile, warehouse, orgdbts, cliBlock,
                   fsVars, secret, otherVars>>

\* 132-141: dbt.save() inserts the OrgDbt row (its id is the run's)
SetupSaveDbt(r) ==
    /\ pc[r] = "s_dbtsave"
    /\ \/ /\ orgdbts' = orgdbts \cup {r}
          /\ Did(r, "dbt.save", "ok", <<>>)
          /\ Goto(r, "s_link")
       \/ /\ Did(r, "dbt.save", "error", <<>>)
          /\ Goto(r, "crashed")
          /\ UNCHANGED orgdbts
    /\ UNCHANGED <<kind, child, token, events, localOrg, profile, org, warehouse,
                   cliBlock, fsVars, secret, otherVars>>

\* 142-144: org.dbt = dbt; org.save(), a second, separate write
SetupLinkOrg(r) ==
    /\ pc[r] = "s_link"
    /\ \/ /\ localOrg' = [localOrg EXCEPT ![r].dbt = r]
          /\ org' = localOrg'[r]
          /\ Did(r, "org.save", "ok", <<org.dbt, org'.dbt>>)
          /\ Goto(r, IF token[r] # None THEN "s_deltoken" ELSE "s_complete")
       \/ /\ Did(r, "org.save", "error", <<org.dbt, org.dbt>>)
          /\ Goto(r, "crashed")
          /\ UNCHANGED <<localOrg, org>>
    /\ UNCHANGED <<kind, child, token, events, profile, warehouse, orgdbts, cliBlock,
                   fsVars, secret, otherVars>>

\* 147: secretsmanager.delete_github_token(org)
SetupDeleteToken(r) ==
    /\ pc[r] = "s_deltoken"
    /\ \/ /\ secret' = None
          /\ Did(r, "delete_github_token", "ok", <<>>)
          /\ Goto(r, "s_savetoken")
       \/ /\ Did(r, "delete_github_token", "error", <<>>)
          /\ Goto(r, "crashed")
          /\ UNCHANGED secret
    /\ UNCHANGED <<kind, child, token, events, localOrg, profile, dbVars, fsVars,
                   otherVars>>

\* 148: secretsmanager.save_github_token(org, token)
SetupSaveToken(r) ==
    /\ pc[r] = "s_savetoken"
    /\ \/ /\ secret' = token[r]
          /\ Did(r, "save_github_token", "ok", <<>>)
          /\ Goto(r, "s_complete")
       \/ /\ Did(r, "save_github_token", "error", <<>>)
          /\ Goto(r, "crashed")
          /\ UNCHANGED secret
    /\ UNCHANGED <<kind, child, token, events, localOrg, profile, dbVars, fsVars,
                   otherVars>>

\* 150-156: the completed event
SetupComplete(r) ==
    /\ pc[r] = "s_complete"
    /\ Add(r, Ev("wrote OrgDbt entry", "completed"))
    /\ Goto(r, "done")
    /\ UNCHANGED <<kind, child, token, calls, localOrg, profile, dbVars, fsVars,
                   secret, otherVars>>

(***************************************************************************)
(* run_dbt_commands (tasks.py 159-283)                                     *)
(***************************************************************************)

\* 162-171: the "started" event, then the org row is read into memory
StartDbt(r) ==
    /\ pc[r] = "idle"
    /\ kind' = [kind EXCEPT ![r] = "dbt"]
    /\ Add(r, Ev("started", "running"))
    /\ localOrg' = [localOrg EXCEPT ![r] = org]
    /\ Goto(r, "d_orgdbt")
    /\ UNCHANGED <<child, token, calls, profile, dbVars, fsVars, secret,
                   otherVars>>

\* 173-182: OrgDbt.objects.filter(org=org).first() is the row the org links to
DbtFindOrgDbt(r) ==
    /\ pc[r] = "d_orgdbt"
    /\ IF org.dbt = None
         THEN /\ Add(r, Ev("need to set up a dbt workspace first", "failed"))
              /\ Goto(r, "done")
         ELSE /\ Goto(r, "d_block")
              /\ UNCHANGED events
    /\ UNCHANGED <<kind, child, token, calls, localOrg, profile, dbVars,
                   fsVars, secret, otherVars>>

\* fault: the pipeline starts right after the checks
AfterChecksSkipsProfile == "d_clean"

\* 187-197: where the run goes once both checks have passed
AfterChecks == "d_fetch"

\* 184-195: the dbt cli profile block of the org
DbtFindBlock(r) ==
    /\ pc[r] = "d_block"
    /\ IF ~cliBlock
         THEN /\ Add(r, Ev("need to set up a dbt cli profile first", "failed"))
              /\ Goto(r, "done")
         ELSE /\ Goto(r, AfterChecks)
              /\ UNCHANGED events
    /\ UNCHANGED <<kind, child, token, calls, localOrg, profile, dbVars,
                   fsVars, secret, otherVars>>

\* 197: get_dbt_cli_profile_block(...)["profile"], an HTTP call outside any try
DbtFetchProfile(r) ==
    /\ pc[r] = "d_fetch"
    /\ \/ /\ \E p \in Profiles :
                /\ profile' = [profile EXCEPT ![r] = p]
                /\ Did(r, "fetch profile", "ok", <<p>>)
          /\ Goto(r, "d_write")
       \/ /\ Did(r, "fetch profile", "error", <<>>)
          /\ Goto(r, "crashed")
          /\ UNCHANGED profile
    /\ UNCHANGED <<kind, child, token, events, localOrg, dbVars, fsVars,
                   secret, otherVars>>

\* 198-206: profiles.yml is written under dbtrepo, outside any try; open()
\* raises when dbtrepo is missing (or on an I/O error), Path / None raises
DbtWriteProfile(r) ==
    /\ pc[r] = "d_write"
    /\ \/ /\ localOrg[r].slug # None
          /\ dbtrepo
          /\ files' = {f \in files : f[1] # "profiles.yml"}
                          \cup {<<"profiles.yml", profile[r]>>}
          /\ Did(r, "write profile", "ok", <<profile[r]>>)
          /\ Goto(r, "d_clean")
       \/ /\ Did(r, "write profile", "error", <<>>)
          /\ Goto(r, "crashed")
          /\ UNCHANGED files
    /\ UNCHANGED <<kind, child, token, events, localOrg, profile, dbVars,
                   projectDir, dbtrepo, secret, otherVars>>

\* f"{dbt_binary} clean --profiles-dir=profiles" and its siblings
DbtCmd(step) == <<"venv/bin/dbt ", step, " --profiles-dir=profiles">>

StartingMsg(step) ==
    CASE step = "clean" -> "starting dbt clean"
      [] step = "deps" -> "starting dbt deps"
      [] step = "run" -> "starting dbt run"
OutputMsg(step) ==
    CASE step = "clean" -> "dbt clean output"
      [] step = "deps" -> "dbt deps output"
      [] step = "run" -> "dbt run output"
FailedMsg(step) ==
    CASE step = "clean" -> "dbt clean failed"
      [] step = "deps" -> "dbt deps failed"
      [] step = "run" -> "dbt run failed"

\* 225-232, 250-257, 271-278: the event of a step whose process exited non-zero
StepFailedEvent(step, stdout) ==
    EvErr(FailedMsg(step), StrCalledProcessError(DbtCmd(step), 1))

\* fault: the handler of a failed step falls through to the next step
AfterStepFailureGoesOn(step) ==
    IF step = "clean" THEN "d_deps" ELSE IF step = "deps" THEN "d_run" ELSE "d_complete"

\* where a step goes after a CalledProcessError: the handler returns
AfterStepFailure(step) == "done"

\* one step of the pipeline: the "starting" event, runcmd_with_output, then
\* the output event, or the failed event on CalledProcessError; any other
\* exception (the binary or the working directory is missing) is not caught
DbtStep(r, step, from, to) ==
    /\ pc[r] = from
    /\ \/ /\ dbtrepo
          /\ \E out \in Stdouts :
                /\ Did(r, step, "ok", out)
                /\ Add2(r, Ev(StartingMsg(step), "running"),
                           EvOut(OutputMsg(step), CommandOutput(out)))
          /\ Goto(r, to)
       \/ /\ dbtrepo
          /\ \E out \in Stdouts :
                /\ Did(r, step, "nonzero", out)
                /\ Add2(r, Ev(StartingMsg(step), "running"),
                           StepFailedEvent(step, out))
          /\ Goto(r, AfterStepFailure(step))
       \/ /\ Did(r, step, "oserror", <<>>)
          /\ Add(r, Ev(StartingMsg(step), "running"))
          /\ Goto(r, "crashed")
    /\ UNCHANGED <<kind, child, token, localOrg, profile, dbVars, fsVars, secret,
                   otherVars>>

\* 211-234
DbtClean(r) == DbtStep(r, "clean", "d_clean", "d_deps")
\* 236-259
DbtDeps(r) == DbtStep(r, "deps", "d_deps", "d_run")
\* 261-280
DbtRun(r) == DbtStep(r, "run", "d_run", "d_complete")

\* 283
DbtComplete(r) ==
    /\ pc[r] = "d_complete"
    /\ Add(r, Ev("dbt run completed", "completed"))
    /\ Goto(r, "done")
    /\ UNCHANGED <<kind, child, token, calls, localOrg, profile, dbVars,
                   fsVars, secret, otherVars>>

(***************************************************************************)
(* The tasks: initial states and next-state relation                       *)
(***************************************************************************)

\* no run is dispatched yet
RunsIdle ==
    /\ pc = [r \in Runs |-> "idle"]
    /\ kind = [r \in Runs |-> "none"]
    /\ child = [r \in Runs |-> FALSE]
    /\ token = [r \in Runs |-> None]
    /\ events = [r \in Runs |-> <<>>]
    /\ calls = [r \in Runs |-> <<>>]
    /\ localOrg = [r \in Runs |-> [slug |-> None, dbt |-> None]]
    /\ profile = [r \in Runs |-> None]

\* the organization before the runs: never set up, set up to the point of
\* the slug and the project directory, or with a complete dbt workspace
OrgFresh ==
    /\ org = [slug |-> None, dbt |-> None]
    /\ orgdbts = {}
    /\ projectDir = FALSE /\ dbtrepo = FALSE /\ files = {}
    /\ secret = None
OrgSlugged ==
    /\ org = [slug |-> "slug", dbt |-> None]
    /\ orgdbts = {}
    /\ projectDir = TRUE /\ dbtrepo = FALSE /\ files = {}
    /\ secret = None
OrgSetUp ==
    /\ org = [slug |-> "slug", dbt |-> "old"]
    /\ orgdbts = {"old"}
    /\ projectDir = TRUE /\ dbtrepo = TRUE /\ files = {<<"old", "old">>}
    /\ secret = "oldtok"

LocksIdle ==
    /\ blocklocks = {} /\ tasklocks = {} /\ finished = {}
    /\ now = 0 /\ ticks = 0
    /\ swept = [kind |-> "none", at |-> 0, deleted |-> {}]
    /\ due = {}
ConnIdle == call = [op |-> "none"] /\ requests = <<>> /\ result = [exc |-> "idle"]

Init ==
    /\ RunsIdle
    /\ OrgFresh \/ OrgSlugged \/ OrgSetUp
    /\ warehouse \in BOOLEAN
    /\ cliBlock \in BOOLEAN
    /\ LocksIdle
    /\ ConnIdle

Next ==
    \E r \in Runs :
        \/ StartClone(r)
        \/ CloneCheckDir(r)
        \/ CloneMkdir(r)
        \/ CloneRmtree(r)
        \/ CloneRun(r)
        \/ StartSetup(r)
        \/ SetupCheckWarehouse(r)
        \/ SetupSlug(r)
        \/ SetupSaveDbt(r)
        \/ SetupLinkOrg(r)
        \/ SetupDeleteToken(r)
        \/ SetupSaveToken(r)
        \/ SetupComplete(r)
        \/ StartDbt(r)
        \/ DbtFindOrgDbt(r)
        \/ DbtFindBlock(r)
        \/ DbtFetchProfile(r)
        \/ DbtWriteProfile(r)
        \/ DbtClean(r)
        \/ DbtDeps(r)
        \/ DbtRun(r)
        \/ DbtComplete(r)

Spec == Init /\ [][Next]_vars

(***************************************************************************)
(* The lock sweeps (tasks.py 293-315)                                      *)
(***************************************************************************)

\* timedelta(seconds=3600)
OneHour == 3600

\* how often the clock advances in a behaviour
MaxTicks == 3
\* by how much the clock advances at once
TickSteps == {1, OneHour - 1}

BlockIds == {"b1", "b2"}
TaskIds == {"t1"}

\* a lock is taken for a resource that has none; locked_at is the current time
LockBlock(id) ==
    /\ \A l \in blocklocks : l.id # id
    /\ blocklocks' = blocklocks \cup {[id |-> id, locked_at |-> now]}
    /\ finished' = finished \ {id}
    /\ UNCHANGED <<tasklocks, now, ticks, swept, due, taskVars, connVars>>

LockTask(id) ==
    /\ \A l \in tasklocks : l.id # id
    /\ tasklocks' = tasklocks \cup {[id |-> id, locked_at |-> now]}
    /\ finished' = finished \ {id}
    /\ UNCHANGED <<blocklocks, now, ticks, swept, due, taskVars, connVars>>

\* the holder of a lock finishes and leaves its lock behind
HolderFinishes(id) ==
    /\ id \notin finished
    /\ \E l \in blocklocks \cup tasklocks : l.id = id
    /\ finished' = finished \cup {id}
    /\ UNCHANGED <<blocklocks, tasklocks, now, ticks, swept, due, taskVars, connVars>>

Tick(d) ==
    /\ ticks < MaxTicks
    /\ now' = now + d
    /\ ticks' = ticks + 1
    /\ UNCHANGED <<blocklocks, tasklocks, finished, swept, due, taskVars, connVars>>

\* 296, 303: onehourago = utcnow() - timedelta(seconds=3600)
OneHourAgo(t) == t - OneHour

\* fault: the filter is locked_at__lte
LockedBeforeOrAt(l, t) == l.locked_at <= t

\* 297, 304: filter(locked_at__lt=onehourago)
LockedBefore(l, t) == l.locked_at < t

\* 293-297
delete_old_blocklocks ==
    LET old == {l \in blocklocks : LockedBefore(l, OneHourAgo(now))} IN
    /\ blocklocks' = blocklocks \ old
    /\ swept' = [kind |-> "block", at |-> now, deleted |-> old]
    /\ due' = due \ {"block"}
    /\ UNCHANGED <<tasklocks, finished, now, ticks, taskVars, connVars>>

\* 300-304
delete_old_tasklocks ==
    LET old == {l \in tasklocks : LockedBefore(l, OneHourAgo(now))} IN
    /\ tasklocks' = tasklocks \ old
    /\ swept' = [kind |-> "task", at |-> now, deleted |-> old]
    /\ due' = due \ {"task"}
    /\ UNCHANGED <<blocklocks, finished, now, ticks, taskVars, connVars>>

LockInit == RunsIdle /\ OrgFresh /\ warehouse = FALSE /\ cliBlock = FALSE
            /\ LocksIdle /\ ConnIdle

LockNext ==
    \/ \E id \in BlockIds : LockBlock(id)
    \/ \E id \in TaskIds : LockTask(id)
    \/ \E id \in BlockIds \cup TaskIds : HolderFinishes(id)
    \/ \E d \in TickSteps : Tick(d)
    \/ delete_old_blocklocks
    \/ delete_old_tasklocks

LockSpec == LockInit /\ [][LockNext]_vars

(***************************************************************************)
(* The periodic sweeps (tasks.py 307-315): the beat sends both sweeps      *)
(* every 60 seconds                                                        *)
(***************************************************************************)

\* 311, 314: the period, 60 * 1.0 seconds
SweepPeriod == 60

\* fault: only the block lock sweep is registered
OnlyBlockSweepRegistered == {"block"}

\* 310-315: the sweeps setup_periodic_tasks registers
PeriodicTasks == {"block", "task"}

\* for how many periods locks are taken
LockPeriods == 1
\* the clock runs until a lock taken in the last of them has been older than
\* an hour for a whole period
MaxPeriods == LockPeriods + (OneHour \div SweepPeriod) + 1
\* the clock advances by half a period
ClockStep == SweepPeriod \div 2

\* the resources locked under the periodic sweeps
SweptBlockIds == {"b1"}
SweptTaskIds == {"t1"}

\* a period of the beat ends between the times t and u
PeriodEnds(t, u) == (u \div SweepPeriod) > (t \div SweepPeriod)

\* time passes; at the end of a period the beat sends the registered sweeps,
\* and a worker runs a sweep within the period it was sent in
ClockAdvances ==
    /\ now + ClockStep <= MaxPeriods * SweepPeriod
    /\ PeriodEnds(now, now + ClockStep) => due = {}
    /\ now' = now + ClockStep
    /\ due' = IF PeriodEnds(now, now') THEN due \cup PeriodicTasks ELSE due
    /\ UNCHANGED <<blocklocks, tasklocks, finished, ticks, swept, taskVars, connVars>>

\* a lock is taken during the first periods
TakeBlockLock(id) == now <= LockPeriods * SweepPeriod /\ LockBlock(id)
TakeTaskLock(id) == now <= LockPeriods * SweepPeriod /\ LockTask(id)

\* a worker runs a sweep the beat has sent
SweepBlockLocks == "block" \in due /\ delete_old_blocklocks
SweepTaskLocks == "task" \in due /\ delete_old_tasklocks

SweepInit == LockInit

SweepNext ==
    \/ ClockAdvances
    \/ \E id \in SweptBlockIds : TakeBlockLock(id)
    \/ \E id \in SweptTaskIds : TakeTaskLock(id)
    \/ \E id \in SweptBlockIds \cup SweptTaskIds : HolderFinishes(id)
    \/ SweepBlockLocks
    \/ SweepTaskLocks

\* time passes, and a sweep the beat has sent is run
SweepSpec ==
    /\ SweepInit /\ [][SweepNext]_vars
    /\ WF_vars(ClockAdvances)
    /\ WF_vars(SweepBlockLocks)
    /\ WF_vars(SweepTaskLocks)

(***************************************************************************)
(* The airbyte client (airbyte_service.py)                                 *)
(***************************************************************************)

\* longest remote catalog and longest stream selection list
MaxCatalog == 2
MaxStreams == 2

StreamNames == {"A", "B"}
SeqsUpTo(S, n) == UNION {[1..k -> S] : k \in 0..n}

\* an entry of the catalog the remote discovers, with the remote's defaults
CatalogEntry(n) ==
    [stream |-> [name |-> n, supportedSyncModes |-> <<"full_refresh", "incremental">>],
     config |-> [syncMode |-> "full_refresh", destinationSyncMode |-> "append"]]
Catalogs ==
    {[i \in 1..Len(ns) |-> CatalogEntry(ns[i])] : ns \in SeqsUpTo(StreamNames, MaxCatalog)}

\* the stream selections a caller may pass in connection_info.streams
SelectionModes ==
    {[syncMode |-> "incremental", destinationSyncMode |-> "append_dedup"],
     [syncMode |-> "full_refresh", destinationSyncMode |-> "overwrite"]}
Selections ==
    {[name |-> n, selected |-> b, syncMode |-> m.syncMode,
      destinationSyncMode |-> m.destinationSyncMode] :
        n \in StreamNames, b \in BOOLEAN, m \in SelectionModes}

\* connection_info (schema.AirbyteConnectionCreate / AirbyteConnectionUpdate)
ConnInfos ==
    [streams : SeqsUpTo(Selections, MaxStreams),
     normalize : BOOLEAN,
     destinationSchema : {"", "custom"},
     sourceId : {"src"}, destinationId : {"dst"}, name : {"conn"}]

\* what the remote may do with a request: refuse the connection, not answer
\* within the timeout, or answer with a status and a body
Refused == [net |-> "refused"]
\* no connection within the 30 seconds: requests.exceptions.ConnectTimeout,
\* a ConnectionError
ConnectTimeout == [net |-> "connect_timeout"]
\* connected, but no answer within the 30 seconds:
\* requests.exceptions.ReadTimeout, a Timeout but not a ConnectionError
ReadTimeout == [net |-> "read_timeout"]
\* what the remote may do other than answer
NoAnswers == {Refused, ConnectTimeout, ReadTimeout}
Answer(status, body) == [net |-> "ok", status |-> status, json |-> TRUE, body |-> body]
\* an answer whose Content-Type is not application/json
NotJson(status) == [net |-> "ok", status |-> status, json |-> FALSE, body |-> <<>>]

\* the empty dict
EmptyDict == <<>>

DiscoverResponses ==
    NoAnswers \cup {Answer(500, [message |-> "server error"])}
    \cup {Answer(200, [catalog |-> [streams |-> c], catalogId |-> "cat1"]) : c \in Catalogs}
    \cup {Answer(200, [jobInfo |-> [failureReason |-> [externalMessage |-> "job failed"]]]),
          Answer(200, [jobInfo |-> [succeeded |-> FALSE]]),
          Answer(200, [message |-> "no schema"]),
          Answer(200, [status |-> "failed"]),
          NotJson(200)}

ConnectionResponses ==
    NoAnswers \cup
    {Answer(500, [message |-> "server error"]),
     Answer(200, [connectionId |-> "c1"]), Answer(200, [message |-> "not created"])}

Returned(v) == [exc |-> "none", value |-> v]
HttpError(code, msg) == [exc |-> "HttpError", code |-> code, msg |-> msg]
TypeError(msg) == [exc |-> "TypeError", msg |-> msg]
AirbyteError(detail, errors) == [exc |-> "AirbyteError", detail |-> detail, errors |-> errors]
\* the KeyError of a subscript d[key] whose key the dict does not have
KeyError(key) == [exc |-> "KeyError", key |-> key]
Raised(x) == x.exc # "none"

\* 49: res.raise_for_status() raises for a 4xx or 5xx status
RaisesForStatus(status) == status >= 400

\* 23-56: abreq, given what the remote does with the request
abreq(resp) ==
    IF resp.net \in {"refused", "connect_timeout"}
      THEN HttpError(500, "Error connecting to Airbyte server")
    ELSE IF resp.net = "read_timeout" THEN [exc |-> "ReadTimeout"]
    ELSE IF RaisesForStatus(resp.status) THEN HttpError(resp.status, "Something went wrong")
    ELSE IF resp.json THEN Returned(resp.body)
    ELSE Returned(EmptyDict)

\* a request as the log keeps it
Request(endpoint, payload, resp) == [endpoint |-> endpoint, payload |-> payload, resp |-> resp]
\* fault: every request is sent again after the first try
OutcomeResent(reqs, res) == [requests |-> reqs \o reqs, result |-> res]

\* an outcome of an operation: the requests it sent and what it returned or raised
Outcome(reqs, res) == [requests |-> reqs, result |-> res]

\* 262-277: get_source_schema_catalog, for a string workspace and source id
get_source_schema_catalog(source_id, resp) ==
    LET res == abreq(resp)
        reqs == <<Request("sources/discover_schema", [sourceId |-> source_id], resp)>>
    IN  IF Raised(res) THEN Outcome(reqs, res)
        ELSE IF "catalog" \notin DOMAIN res.value /\ "jobInfo" \in DOMAIN res.value
          THEN Outcome(reqs,
                 IF "failureReason" \notin DOMAIN res.value.jobInfo
                   THEN KeyError("failureReason")
                 ELSE IF "externalMessage" \notin DOMAIN res.value.jobInfo.failureReason
                   THEN KeyError("externalMessage")
                 ELSE AirbyteError("Failed to get source schema catalogs",
                                   res.value.jobInfo.failureReason.externalMessage))
        ELSE IF "catalog" \notin DOMAIN res.value /\ "jobInfo" \notin DOMAIN res.value
          THEN Outcome(reqs,
                 IF "message" \notin DOMAIN res.value THEN KeyError("message")
                 ELSE AirbyteError("Failed to get source schema catalogs",
                                   res.value.message))
        ELSE Outcome(reqs, res)

\* 262-277: the outcomes of a call of get_source_schema_catalog, over what
\* the remote may do; wsOk and idOk say whether the ids are strings
schema_catalog_call(wsOk, idOk) ==
    IF ~wsOk THEN {Outcome(<<>>, TypeError("workspace_id must be a string"))}
    ELSE IF ~idOk THEN {Outcome(<<>>, TypeError("source_id must be a string"))}
    ELSE {get_source_schema_catalog("src", d) : d \in DiscoverResponses}

\* 504: selected_streams = {x["name"]: x for x in streams}, a later entry of
\* the same name replacing the earlier one
RECURSIVE DictByName(_, _)
DictByName(streams, d) ==
    IF streams = <<>> THEN d
    ELSE DictByName(Tail(streams),
                    [k \in DOMAIN d \cup {Head(streams).name} |->
                        IF k = Head(streams).name THEN Head(streams) ELSE d[k]])

\* fault: the test forgets the selection's `selected` flag
CreateSelectsAnyNamed(name, selected_streams) == name \in DOMAIN selected_streams

\* 507-510: the test that lets a catalog entry into the payload
CreateSelects(name, selected_streams) ==
    name \in DOMAIN selected_streams /\ selected_streams[name].selected

\* 512-515: the entry with its config overwritten from the selection
CreateConfigured(schema_cat, sel) ==
    [schema_cat EXCEPT !.config.syncMode = sel.syncMode,
                       !.config.destinationSyncMode = sel.destinationSyncMode]

\* 503-516: the loop over the catalog
RECURSIVE CreateStreams(_, _)
CreateStreams(catalog, selected_streams) ==
    IF catalog = <<>> THEN <<>>
    ELSE LET schema_cat == Head(catalog)
             stream_name == schema_cat.stream.name
         IN  (IF CreateSelects(stream_name, selected_streams)
                THEN <<CreateConfigured(schema_cat, selected_streams[stream_name])>>
                ELSE <<>>)
             \o CreateStreams(Tail(catalog), selected_streams)

\* 500-501: payload["operationIds"] is set only when normalize is asked for
WithOperationIds(payload, info, norm_op_id) ==
    IF info.normalize
      THEN [k \in DOMAIN payload \cup {"operationIds"} |->
               IF k = "operationIds" THEN <<norm_op_id>> ELSE payload[k]]
      ELSE payload

\* 478-516: the payload of connections/create
CreatePayload(info, catalog) ==
    WithOperationIds(
        [sourceId |-> info.sourceId,
         destinationId |-> info.destinationId,
         sourceCatalogId |-> catalog.catalogId,
         syncCatalog |-> [streams |-> CreateStreams(catalog.catalog.streams,
                                                    DictByName(info.streams, EmptyDict))],
         status |-> "active",
         prefix |-> "",
         namespaceDefinition |->
             IF info.destinationSchema # "" THEN "customformat" ELSE "destination",
         namespaceFormat |->
             IF info.destinationSchema # "" THEN info.destinationSchema
             ELSE "${SOURCE_NAMESPACE}",
         nonBreakingChangesPreference |-> "ignore",
         scheduleType |-> "manual",
         geography |-> "auto",
         name |-> info.name],
        info, "normop")

\* fault: the check of the selection list is missing
NoStreamsUnchecked(info) == FALSE

\* 471-473, 535-537: the check of the selection list
NoStreams(info) == Len(info.streams) = 0

\* 518-522, 591-595: the answer must carry a connectionId. Without one the
\* code evaluates HttpError(500, "failed to ...: %s", res), three arguments:
\* ninja's HttpError (not part of the sources) either accepts them or its
\* constructor raises a TypeError
ConnectionResults(res, failure) ==
    IF Raised(res) THEN {res}
    ELSE IF "connectionId" \notin DOMAIN res.value
      THEN {HttpError(500, failure), TypeError("HttpError() takes 2 arguments")}
    ELSE {res}

\* 460-522: the outcomes of create_connection, over what the remote may do
create_connection(wsOk, opOk, info) ==
    IF ~wsOk THEN {Outcome(<<>>, TypeError("workspace_id must be a string"))}
    ELSE IF ~opOk THEN {Outcome(<<>>, TypeError("airbyte_norm_op_id must be a string"))}
    ELSE IF NoStreams(info)
      THEN {Outcome(<<>>, HttpError(400, "must specify at least one stream"))}
    ELSE UNION {
        LET got == get_source_schema_catalog(info.sourceId, d) IN
        IF Raised(got.result) THEN {got}
        ELSE LET payload == CreatePayload(info, got.result.value) IN
             UNION {{Outcome(Append(got.requests,
                                    Request("connections/create", payload, c)), res) :
                        res \in ConnectionResults(abreq(c), "failed to create connection")} :
                    c \in ConnectionResponses}
        : d \in DiscoverResponses}

\* 573: selected_streams = [{x["name"]: x} for x in streams], a list of dicts
ListOfDicts(streams) ==
    [i \in 1..Len(streams) |->
        [type |-> "dict", value |-> [k \in {streams[i].name} |-> streams[i]]]]

\* 577: stream_name in selected_streams; a str never equals a dict
InList(name, selected_streams) ==
    \E i \in 1..Len(selected_streams) :
        selected_streams[i].type = "str" /\ selected_streams[i].value = name

\* 572-589: the loop over the catalog; the body is reached only for a name
\* that is an element of the list
RECURSIVE UpdateStreams(_, _)
UpdateStreams(catalog, selected_streams) ==
    IF catalog = <<>> THEN <<>>
    ELSE LET schema_cat == Head(catalog)
             stream_name == schema_cat.stream.name
         IN  (IF InList(stream_name, selected_streams)
                THEN <<[schema_cat EXCEPT !.config.syncMode = "TypeError"]>>
                ELSE <<>>)
             \o UpdateStreams(Tail(catalog), selected_streams)

\* 543-589: the payload of connections/update
UpdatePayload(connection_id, info, catalog) ==
    [connectionId |-> connection_id,
     sourceId |-> info.sourceId,
     destinationId |-> info.destinationId,
     sourceCatalogId |-> catalog.catalogId,
     syncCatalog |-> [streams |-> UpdateStreams(catalog.catalog.streams,
                                                ListOfDicts(info.streams))],
     prefix |-> "",
     namespaceDefinition |-> "destination",
     namespaceFormat |-> "${SOURCE_NAMESPACE}",
     nonBreakingChangesPreference |-> "ignore",
     scheduleType |-> "manual",
     geography |-> "auto",
     name |-> info.name,
     operations |-> <<[name |-> "Normalization",
                       workspaceId |-> "ws",
                       operatorConfiguration |->
                           [operatorType |-> "normalization",
                            normalization |-> [option |-> "basic"]]]>>]

\* 525-595: the outcomes of update_connection, over what the remote may do
update_connection(wsOk, idOk, info) ==
    IF ~wsOk THEN {Outcome(<<>>, TypeError("workspace_id must be a string"))}
    ELSE IF ~idOk THEN {Outcome(<<>>, TypeError("connection_id must be a string"))}
    ELSE IF NoStreams(info)
      THEN {Outcome(<<>>, HttpError(400, "must specify at least one stream"))}
    ELSE UNION {
        LET got == get_source_schema_catalog(info.sourceId, d) IN
        IF Raised(got.result) THEN {got}
        ELSE LET payload == UpdatePayload("c1", info, got.result.value) IN
             UNION {{Outcome(Append(got.requests,
                                    Request("connections/update", payload, c)), res) :
                        res \in ConnectionResults(abreq(c), "failed to update connection")} :
                    c \in ConnectionResponses}
        : d \in DiscoverResponses}

\* one of the other operations of the module: the endpoint it posts to, its
\* arguments, those it checks with isinstance, those whose attributes it reads
\* for the payload, the prefix of the RuntimeError it wraps every exception of
\* abreq in (None: it wraps nothing), the key the answer must have, what
\* happens without the key (an HttpError of the given code, or the KeyError
\* of the subscript), and whether that HttpError is given a third argument
EntityOp(name, endpoint, args, checked, attrs, wraps, needs, onMissing, code, fmt) ==
    [name |-> name, endpoint |-> endpoint, args |-> args, checked |-> checked,
     attrs |-> attrs, wraps |-> wraps, needs |-> needs, onMissing |-> onMissing,
     code |-> code, fmt |-> fmt]

EntityOps ==
    {
     \* 59-61
     EntityOp("get_workspaces", "workspaces/list",
              {}, {}, {},
              None, None, "none", 0, FALSE),
     \* 64-72
     EntityOp("get_workspace", "workspaces/get",
              {"workspace_id"}, {"workspace_id"}, {},
              "Error fetching workspace", None, "none", 0, FALSE),
     \* 75-88
     EntityOp("set_workspace_name", "workspaces/update_name",
              {"workspace_id", "name"}, {"workspace_id", "name"}, {},
              "Error setting workspace name", None, "none", 0, FALSE),
     \* 91-100
     EntityOp("create_workspace", "workspaces/create",
              {"name"}, {"name"}, {},
              None, "workspaceId", "HttpError", 404, FALSE),
     \* 103-116
     EntityOp("get_source_definitions", "source_definitions/list_for_workspace",
              {"workspace_id"}, {"workspace_id"}, {},
              "Error fetching source definitions", "sourceDefinitions", "KeyError", 0, FALSE),
     \* 119-136
     EntityOp("get_source_definition_specification", "source_definition_specifications/get",
              {"workspace_id", "sourcedef_id"}, {"workspace_id", "sourcedef_id"}, {},
              None, "connectionSpecification", "HttpError", 404, TRUE),
     \* 139-148
     EntityOp("get_sources", "sources/list",
              {"workspace_id"}, {"workspace_id"}, {},
              None, "sources", "HttpError", 404, TRUE),
     \* 151-163
     EntityOp("get_source", "sources/get",
              {"workspace_id", "source_id"}, {"workspace_id", "source_id"}, {},
              None, "sourceId", "HttpError", 404, TRUE),
     \* 166-175
     EntityOp("delete_source", "sources/delete",
              {"workspace_id", "source_id"}, {"workspace_id", "source_id"}, {},
              None, None, "none", 0, FALSE),
     \* 178-203
     EntityOp("create_source", "sources/create",
              {"workspace_id", "name", "sourcedef_id", "config"}, {"workspace_id", "name", "sourcedef_id", "config"}, {},
              None, "sourceId", "HttpError", 500, TRUE),
     \* 206-230
     EntityOp("update_source", "sources/update",
              {"source_id", "name", "config", "sourcedef_id"}, {"source_id", "name", "config", "sourcedef_id"}, {},
              None, "sourceId", "HttpError", 500, FALSE),
     \* 233-259
     EntityOp("check_source_connection", "scheduler/sources/check_connection",
              {"workspace_id", "data"}, {"workspace_id"}, {"data"},
              None, None, "none", 0, FALSE),
     \* 280-291
     EntityOp("get_destination_definitions", "destination_definitions/list_for_workspace",
              {"workspace_id"}, {"workspace_id"}, {},
              None, "destinationDefinitions", "HttpError", 404, FALSE),
     \* 294-312
     EntityOp("get_destination_definition_specification", "destination_definition_specifications/get",
              {"workspace_id", "destinationdef_id"}, {"workspace_id", "destinationdef_id"}, {},
              None, "connectionSpecification", "HttpError", 404, FALSE),
     \* 315-324
     EntityOp("get_destinations", "destinations/list",
              {"workspace_id"}, {"workspace_id"}, {},
              None, "destinations", "HttpError", 404, FALSE),
     \* 327-338
     EntityOp("get_destination", "destinations/get",
              {"workspace_id", "destination_id"}, {"workspace_id", "destination_id"}, {},
              None, "destinationId", "HttpError", 404, FALSE),
     \* 341-366
     EntityOp("create_destination", "destinations/create",
              {"workspace_id", "name", "destinationdef_id", "config"}, {"workspace_id", "name", "destinationdef_id", "config"}, {},
              None, "destinationId", "HttpError", 500, FALSE),
     \* 369-394
     EntityOp("update_destination", "destinations/update",
              {"destination_id", "name", "config", "destinationdef_id"}, {"destination_id", "name", "config", "destinationdef_id"}, {},
              None, "destinationId", "HttpError", 500, FALSE),
     \* 397-412
     EntityOp("check_destination_connection", "scheduler/destinations/check_connection",
              {"workspace_id", "data"}, {"workspace_id"}, {"data"},
              None, None, "none", 0, FALSE),
     \* 415-424
     EntityOp("get_connections", "connections/list",
              {"workspace_id"}, {"workspace_id"}, {},
              None, "connections", "HttpError", 404, TRUE),
     \* 427-436
     EntityOp("get_connection", "connections/get",
              {"workspace_id", "connection_id"}, {"workspace_id"}, {},
              None, "connectionId", "HttpError", 404, TRUE),
     \* 439-457
     EntityOp("create_normalization_operation", "/operations/create",
              {"workspace_id"}, {"workspace_id"}, {},
              None, "operationId", "KeyError", 0, FALSE),
     \* 598-607
     EntityOp("delete_connection", "connections/delete",
              {"workspace_id", "connection_id"}, {"workspace_id", "connection_id"}, {},
              None, None, "none", 0, FALSE),
     \* 610-619
     EntityOp("sync_connection", "connections/sync",
              {"workspace_id", "connection_id"}, {"workspace_id", "connection_id"}, {},
              None, None, "none", 0, FALSE),
     \* 622-628
     EntityOp("get_job_info", "jobs/get_debug_info",
              {"job_id"}, {"job_id"}, {},
              None, None, "none", 0, FALSE)
    }

\* what the remote may do with the request of such an operation
EntityResponses(op) ==
    NoAnswers \cup
    {Answer(500, [message |-> "server error"]),
     Answer(404, [message |-> "not found"]),
     Answer(200, [message |-> "nothing"]),
     NotJson(200)}
    \cup (IF op.needs # None
            THEN {Answer(200, [k \in {op.needs} |-> "value"])}
            ELSE {})

AttributeError(arg) == [exc |-> "AttributeError", arg |-> arg]
RuntimeError(prefix, e) == [exc |-> "RuntimeError", msg |-> <<prefix, e>>]

\* what the operation makes of the value abreq returned
EntityResults(op, res) ==
    IF Raised(res) THEN {res}
    ELSE IF op.needs = None \/ op.needs \in DOMAIN res.value THEN {res}
    ELSE IF op.onMissing = "KeyError" THEN {KeyError(op.needs)}
    ELSE IF op.fmt
      THEN {HttpError(op.code, "not found"), TypeError("HttpError() takes 2 arguments")}
    ELSE {HttpError(op.code, "not found")}

\* 71-72, 87-88, 115-116: except Exception as e: raise RuntimeError(...)
Wrapped(op, x) ==
    IF op.wraps # None /\ Raised(x) THEN RuntimeError(op.wraps, x) ELSE x

\* the outcomes of the operation called with arguments of which ok[a] says
\* whether argument a has the required shape
entity_operation(op, ok) ==
    IF \E a \in op.checked : ~ok[a]
      THEN {Outcome(<<>>, TypeError(a)) : a \in {b \in op.checked : ~ok[b]}}
    ELSE IF \E a \in op.attrs : ~ok[a]
      THEN {Outcome(<<>>, AttributeError(a)) : a \in {b \in op.attrs : ~ok[b]}}
    ELSE UNION {
        {Outcome(<<Request(op.endpoint, ok, r)>>, Wrapped(op, x)) :
            x \in EntityResults(op, abreq(r))}
        : r \in EntityResponses(op)}

\* a caller calls one of the other operations
EntityCall ==
    /\ call.op = "none"
    /\ \E op \in EntityOps : \E ok \in [op.args -> BOOLEAN] :
          /\ call' = [op |-> op.name, ok |-> ok]
          /\ \E out \in entity_operation(op, ok) :
                requests' = out.requests /\ result' = out.result
    /\ UNCHANGED <<taskVars, lockVars>>

\* a caller calls get_source_schema_catalog
GetSourceSchemaCatalog ==
    /\ call.op = "none"
    /\ \E wsOk \in BOOLEAN, idOk \in BOOLEAN :
          /\ call' = [op |-> "discover", wsOk |-> wsOk, idOk |-> idOk]
          /\ \E out \in schema_catalog_call(wsOk, idOk) :
                requests' = out.requests /\ result' = out.result
    /\ UNCHANGED <<taskVars, lockVars>>

\* a caller calls create_connection; wsOk and idOk say whether workspace_id
\* and the second id are strings
CreateConnection ==
    /\ call.op = "none"
    /\ \E wsOk \in BOOLEAN, idOk \in BOOLEAN, info \in ConnInfos :
          /\ call' = [op |-> "create", wsOk |-> wsOk, idOk |-> idOk, info |-> info]
          /\ \E out \in create_connection(wsOk, idOk, info) :
                requests' = out.requests /\ result' = out.result
    /\ UNCHANGED <<taskVars, lockVars>>

UpdateConnection ==
    /\ call.op = "none"
    /\ \E wsOk \in BOOLEAN, idOk \in BOOLEAN, info \in ConnInfos :
          /\ call' = [op |-> "update", wsOk |-> wsOk, idOk |-> idOk, info |-> info]
          /\ \E out \in update_connection(wsOk, idOk, info) :
                requests' = out.requests /\ result' = out.result
    /\ UNCHANGED <<taskVars, lockVars>>

\* the call is over; the caller may call again
CallReturns ==
    /\ call.op # "none"
    /\ call' = [op |-> "none"]
    /\ requests' = <<>>
    /\ result' = [exc |-> "idle"]
    /\ UNCHANGED <<taskVars, lockVars>>

ConnInit == RunsIdle /\ OrgFresh /\ warehouse = FALSE /\ cliBlock = FALSE
            /\ LocksIdle /\ ConnIdle

ConnNext ==
    \/ GetSourceSchemaCatalog
    \/ CreateConnection
    \/ UpdateConnection
    \/ EntityCall
    \/ CallReturns

ConnSpec == ConnInit /\ [][ConnNext]_vars

(***************************************************************************)
(* Properties of the tasks                                                 *)
(***************************************************************************)

Terminal == {"completed", "failed"}
Stopped(r) == pc[r] \in {"done", "crashed"}
Steps == <<"clean", "deps", "run">>
StepNames == {"clean", "deps", "run"}
IsStepCall(c) == c.op \in StepNames
IsOutputEvent(e) == "output" \in DOMAIN e
IsFailedEvent(e) == e.status = "failed"
\* the dbt process invocations of run r, in order
StepCalls(r) == SelectSeq(calls[r], IsStepCall)
HasCall(r, op, res) == \E i \in 1..Len(calls[r]) : calls[r][i].op = op /\ calls[r][i].res = res
Called(r, op) == \E i \in 1..Len(calls[r]) : calls[r][i].op = op

\* C1: in every run of the three tasks the events handed to the progress
\* channel are 'running' events followed by at most one terminal event
\* ('completed' or 'failed'), which is then the last event of the run; this
\* covers the clone running as the child step of setup_dbtworkspace.
C1_RunningThenOneTerminal ==
    \A r \in Runs :
        \A i \in 1..Len(events[r]) :
            /\ events[r][i].status \in {"running"} \cup Terminal
            /\ events[r][i].status \in Terminal => i = Len(events[r])

\* a setup run whose child clone reported and which then completed
C1_Witness ==
    \E r \in Runs :
        /\ kind[r] = "setup"
        /\ \E i \in 1..Len(events[r]) : events[r][i] = Ev("cloned git repo", "running")
        /\ Last(events[r]).status = "completed"

\* C2: every run of setup_dbtworkspace and run_dbt_commands that has stopped
\* returned normally and left a terminal event as its last event.
C2_StoppedRunIsTerminal ==
    \A r \in Runs :
        (kind[r] \in {"setup", "dbt"} /\ Stopped(r)) =>
            /\ pc[r] = "done"
            /\ Len(events[r]) > 0
            /\ Last(events[r]).status \in Terminal

\* C3: the dbt processes of a run are invoked in the order clean, deps, run,
\* each at most once; when the process of step k exits non-zero the run has
\* ended with a 'failed' event, no process of a later step is invoked, and the
\* output events of the steps before k are in the history in their order.
C3_PipelineHaltsAtFailure ==
    \A r \in Runs :
        kind[r] = "dbt" =>
            LET P == StepCalls(r) IN
            /\ Len(P) <= Len(Steps)
            /\ \A i \in 1..Len(P) : P[i].op = Steps[i]
            /\ \A k \in 1..Len(P) :
                  P[k].res = "nonzero" =>
                      /\ k = Len(P)
                      /\ pc[r] = "done"
                      /\ Last(events[r]).status = "failed"
                      /\ SelectSeq(events[r], IsOutputEvent)
                           = [j \in 1..(k - 1) |->
                                EvOut(OutputMsg(Steps[j]), CommandOutput(P[j].out))]

\* step 2 of 3 (deps) failed after clean succeeded
C3_Witness ==
    \E r \in Runs :
        /\ kind[r] = "dbt"
        /\ Len(StepCalls(r)) = 2
        /\ StepCalls(r)[1].res = "ok"
        /\ StepCalls(r)[2].res = "nonzero"

\* C4: the 'failed' event appended for a pipeline step whose process exited
\* non-zero records the stdout captured from that process.
C4_FailedEventRecordsStdout ==
    \A r \in Runs :
        kind[r] = "dbt" =>
            \A k \in 1..Len(StepCalls(r)) :
                StepCalls(r)[k].res = "nonzero" =>
                    /\ IsFailedEvent(Last(events[r]))
                    /\ IsOutputEvent(Last(events[r]))
                    /\ Last(events[r]).output = CommandOutput(StepCalls(r)[k].out)

\* the two missing prerequisites of setup_dbtworkspace
NoWarehouseCase(r) == kind[r] = "setup" /\ ~warehouse /\ pc[r] # "s_warehouse"
CloneFailedCase(r) == kind[r] = "setup" /\ HasCall(r, "git clone", "error")
FailedEvents(r) == SelectSeq(events[r], IsFailedEvent)
\* no write of run r to the org row changed org.dbt
LeavesOrgDbt(r) ==
    \A i \in 1..Len(calls[r]) :
        calls[r][i].op = "org.save" => calls[r][i].out[1] = calls[r][i].out[2]
\* what every run with a missing prerequisite guarantees, but for org.dbt
EndsFailedWithoutRecord(r) ==
    /\ pc[r] = "done"
    /\ Len(FailedEvents(r)) = 1
    /\ IsFailedEvent(Last(events[r]))
    /\ r \notin orgdbts
    /\ ~Called(r, "dbt.save")
    /\ ~Called(r, "delete_github_token")
    /\ ~Called(r, "save_github_token")
    /\ org.dbt # r

\* C5: a setup_dbtworkspace run with a missing prerequisite (no warehouse, or
\* a failed clone) ends with exactly one 'failed' event, creates no OrgDbt
\* record, leaves org.dbt unchanged and does not call the secret store; with
\* no warehouse the event names the missing warehouse and no clone is tried.
C5_MissingPrerequisite ==
    \A r \in Runs :
        /\ (NoWarehouseCase(r) \/ CloneFailedCase(r)) =>
              EndsFailedWithoutRecord(r) /\ LeavesOrgDbt(r)
        /\ NoWarehouseCase(r) =>
              /\ Last(events[r]).message = "need to set up a warehouse first"
              /\ ~Called(r, "git clone")

\* run r wrote the link org.dbt = its OrgDbt row
HasLinked(r) ==
    \E i \in 1..Len(calls[r]) :
        /\ calls[r][i].op = "org.save"
        /\ calls[r][i].res = "ok"
        /\ calls[r][i].out[2] = r

\* C6: in no state a reader can see is the OrgDbt row of a run saved without
\* the run having linked the organization to it, or the organization linked
\* to a row that is not saved.
C6_SavedIffLinked ==
    /\ \A r \in Runs : r \in orgdbts => HasLinked(r)
    /\ org.dbt # None => org.dbt \in orgdbts

\* run r is between its first and its last access to the working directory
InDir(r) == pc[r] \in {"c_mkdir", "c_rmtree", "c_clone", "d_clean", "d_deps", "d_run"}

\* C7: at most one run at a time is between its first and its last access to
\* the organization's working directory.
C7_OneRunInDirectory ==
    Cardinality({r \in Runs : InDir(r)}) <= 1

(***************************************************************************)
(* Properties of the lock sweeps                                           *)
(***************************************************************************)

\* what a sweep at the current time must do to table T, given T before and
\* after: every lock locked more than an hour ago is gone, every other stays
SweptExactlyStale(before, after) ==
    /\ \A l \in before : now - l.locked_at > OneHour => l \notin after
    /\ \A l \in before : now - l.locked_at <= OneHour => l \in after
    /\ after \subseteq before

\* C8: each execution of delete_old_blocklocks (delete_old_tasklocks) deletes
\* every BlockLock (TaskLock) locked more than 3600 seconds before and keeps
\* every one locked 3600 seconds or less before, finished holder or not, and
\* deletes no lock of the other kind.
C8_SweepDeletesExactlyStale ==
    [][ /\ delete_old_blocklocks =>
              SweptExactlyStale(blocklocks, blocklocks') /\ tasklocks' = tasklocks
        /\ delete_old_tasklocks =>
              SweptExactlyStale(tasklocks, tasklocks') /\ blocklocks' = blocklocks
      ]_vars

\* a block sweep has just deleted a lock that was 3601 seconds old, whose
\* holder had not finished, kept one that is 3600 seconds old and left a
\* task lock of 3601 seconds alone
C8_Witness ==
    /\ swept.kind = "block"
    /\ swept.at = now
    /\ \E l \in swept.deleted : now - l.locked_at = OneHour + 1 /\ l.id \notin finished
    /\ \E l \in blocklocks : now - l.locked_at = OneHour
    /\ \E l \in tasklocks : now - l.locked_at = OneHour + 1

(***************************************************************************)
(* Properties of the connection operations (ConnSpec)                      *)
(***************************************************************************)

\* the call reached connections/create or connections/update
Sent == Len(requests) = 2
\* the catalog the remote discovered for the call
Discovered == requests[1].resp.body.catalog.streams
\* the stream list the call sent
SentStreams == requests[2].payload.syncCatalog.streams

Named(streams, n) == \E i \in 1..Len(streams) : streams[i].name = n
\* the last selection of the list that names n
LastSelection(streams, n) ==
    streams[CHOOSE i \in 1..Len(streams) :
                /\ streams[i].name = n
                /\ \A j \in (i + 1)..Len(streams) : streams[j].name # n]
\* the positions of the catalog whose stream the selections select
Kept(catalog, streams) ==
    {i \in 1..Len(catalog) :
        /\ Named(streams, catalog[i].stream.name)
        /\ LastSelection(streams, catalog[i].stream.name).selected}
\* the k-th smallest element of a set of positions
Nth(S, k) == CHOOSE i \in S : Cardinality({j \in S : j <= i}) = k

\* C9: the stream list create_connection sends to connections/create holds
\* exactly the catalog entries whose name has a selection with selected =
\* true, in catalog order, each with syncMode and destinationSyncMode of that
\* selection; unselected and unnamed entries are absent, selections naming no
\* catalog stream are ignored, and of two selections of one name the later
\* decides.
C9_SendsSelectedCatalogEntries ==
    (call.op = "create" /\ Sent) =>
        LET kept == Kept(Discovered, call.info.streams) IN
        /\ Len(SentStreams) = Cardinality(kept)
        /\ \A k \in 1..Len(SentStreams) :
              LET entry == Discovered[Nth(kept, k)]
                  sel == LastSelection(call.info.streams, entry.stream.name)
              IN  /\ SentStreams[k].stream = entry.stream
                  /\ SentStreams[k].config =
                        [syncMode |-> sel.syncMode,
                         destinationSyncMode |-> sel.destinationSyncMode]

\* create_connection sent a request for a catalog of two streams and two
\* selections of one name, the first unselected and the second selected and
\* incremental: the one stream sent is the second catalog entry, incremental
C9_Witness ==
    /\ call.op = "create" /\ Sent
    /\ Len(Discovered) = 2
    /\ Discovered[1].stream.name # Discovered[2].stream.name
    /\ Len(call.info.streams) = 2
    /\ call.info.streams[1].name = call.info.streams[2].name
    /\ ~call.info.streams[1].selected
    /\ call.info.streams[2].selected
    /\ call.info.streams[2].syncMode = "incremental"
    /\ call.info.streams[2].name = Discovered[2].stream.name
    /\ Len(SentStreams) = 1
    /\ SentStreams[1].config.syncMode = "incremental"

\* the call was made with an empty selection list
EmptySelection == call.op \in {"create", "update"} /\ call.info.streams = <<>>

\* C10 as stated: create_connection and update_connection, called with an
\* empty selection list, fail with HTTP 400 and send no request.
C10_EmptySelectionIsHttp400 ==
    EmptySelection =>
        /\ requests = <<>>
        /\ result.exc = "HttpError"
        /\ result.code = 400

\* C10: create_connection and update_connection, called with an empty
\* selection list, send no request (no sources/discover_schema, no
\* connections/create or connections/update) and fail: with HTTP 400 when
\* workspace_id and the other id are strings, with a TypeError otherwise.
C10_EmptySelectionSendsNothing ==
    EmptySelection =>
        /\ requests = <<>>
        /\ IF call.wsOk /\ call.idOk
             THEN result = HttpError(400, "must specify at least one stream")
             ELSE result.exc = "TypeError"

\* update_connection was called with string ids and an empty selection list
\* and raised HTTP 400 without a request
C10_Witness ==
    /\ call.op = "update" /\ call.wsOk /\ call.idOk
    /\ call.info.streams = <<>>
    /\ requests = <<>>
    /\ result.exc = "HttpError" /\ result.code = 400

\* C11: the stream list update_connection sends to connections/update holds
\* each catalog entry whose stream name has a selection with selected = true,
\* and no other entry.
C11_UpdateSendsSelectedCatalogEntries ==
    (call.op = "update" /\ Sent) =>
        LET kept == Kept(Discovered, call.info.streams) IN
        /\ \A i \in kept :
              \E k \in 1..Len(SentStreams) : SentStreams[k].stream = Discovered[i].stream
        /\ \A k \in 1..Len(SentStreams) :
              \E i \in kept : SentStreams[k].stream = Discovered[i].stream

\* the payload the call sent to connections/create or connections/update
SentPayload == requests[2].payload
\* the payload carries a normalization operation: by id (create) or inline
\* (update)
CarriesNormalization(payload) ==
    \/ "operationIds" \in DOMAIN payload /\ Len(payload.operationIds) > 0
    \/ /\ "operations" \in DOMAIN payload
       /\ \E i \in 1..Len(payload.operations) :
             payload.operations[i].operatorConfiguration.operatorType = "normalization"

\* C12: the payload create_connection and update_connection send carries a
\* normalization operation if and only if the caller requested normalization.
C12_NormalizationIffRequested ==
    (call.op \in {"create", "update"} /\ Sent) =>
        (CarriesNormalization(SentPayload) <=> call.info.normalize)

\* C13: an abreq call whose remote is unreachable or does not answer within
\* the 30 seconds ends with HttpError 500 'Error connecting to Airbyte
\* server'; nothing else escapes for a connection failure or a timeout.
C13_NoAnswerIsConnectivityError ==
    \A i \in 1..Len(requests) :
        requests[i].resp.net # "ok" =>
            result = HttpError(500, "Error connecting to Airbyte server")

\* the remote answered request i with a status outside 200..299
NonSuccess(i) ==
    /\ requests[i].resp.net = "ok"
    /\ ~(200 <= requests[i].resp.status /\ requests[i].resp.status < 300)

\* C14: when the remote answers an operation's request with a non-2xx
\* status, the operation fails with an HttpError that carries that status.
C14_StatusReachesCaller ==
    \A i \in 1..Len(requests) :
        NonSuccess(i) =>
            result.exc = "HttpError" /\ result.code = requests[i].resp.status

\* the call is one of the operations of EntityOps
EntityCalled == call.op \in {op.name : op \in EntityOps}

\* C15: an operation called with a required argument that is missing or of
\* the wrong shape fails with a validation error and sends no request.
C15_MalformedArgumentSendsNothing ==
    (EntityCalled /\ \E a \in DOMAIN call.ok : ~call.ok[a]) =>
        requests = <<>> /\ result.exc = "TypeError"

\* get_source_schema_catalog got a response from abreq
Discovering ==
    call.op = "discover" /\ Len(requests) = 1 /\ ~Raised(abreq(requests[1].resp))
\* the response it got
DiscoverResponse == abreq(requests[1].resp).value

\* C16: for a response without 'catalog', get_source_schema_catalog raises
\* AirbyteError with the remote's message (the job failure reason's external
\* message when the response has 'jobInfo', its 'message' otherwise) and
\* nothing else; a response with 'catalog' is returned unchanged.
C16_DiscoveryErrorCarriesMessage ==
    Discovering =>
        IF "catalog" \in DOMAIN DiscoverResponse
          THEN result = Returned(DiscoverResponse)
          ELSE /\ result.exc = "AirbyteError"
               /\ result.errors =
                    IF "jobInfo" \in DOMAIN DiscoverResponse
                      THEN DiscoverResponse.jobInfo.failureReason.externalMessage
                      ELSE DiscoverResponse.message

\* the call is create_connection or update_connection
ConnectionCalled == call.op \in {"create", "update"}
\* its arguments pass the checks of the ids and of the selection list
PassesValidation == call.wsOk /\ call.idOk /\ call.info.streams # <<>>
\* the endpoint the call sends the connection to
SendEndpoint == IF call.op = "create" THEN "connections/create" ELSE "connections/update"
\* the positions in the request log of the requests to an endpoint
RequestsTo(endpoint) == {i \in 1..Len(requests) : requests[i].endpoint = endpoint}
\* request i is a catalog fetch that returned a catalog
ReturnedCatalog(i) ==
    /\ requests[i].endpoint = "sources/discover_schema"
    /\ ~Raised(abreq(requests[i].resp))
    /\ "catalog" \in DOMAIN abreq(requests[i].resp).value

\* C19: a call of create_connection or update_connection that passes
\* validation fetches the catalog exactly once; it sends connections/create
\* (resp. connections/update) at most once and only after the fetch returned
\* a catalog; when the fetch fails nothing more is sent; no request is
\* repeated, and a call that fails validation sends nothing.
C19_FetchOnceThenSendOnce ==
    ConnectionCalled =>
        /\ Cardinality(RequestsTo("sources/discover_schema")) =
              (IF PassesValidation THEN 1 ELSE 0)
        /\ Cardinality(RequestsTo(SendEndpoint)) <= 1
        /\ \A i \in RequestsTo(SendEndpoint) :
              \E j \in 1..(i - 1) : ReturnedCatalog(j)
        /\ (\A j \in 1..Len(requests) : ~ReturnedCatalog(j)) =>
              RequestsTo(SendEndpoint) = {}
        /\ \A i \in 1..Len(requests) :
              requests[i].endpoint \in {"sources/discover_schema", SendEndpoint}

\* update_connection fetched the catalog, then sent connections/update, and
\* returned the remote's answer
C19_Witness ==
    /\ call.op = "update"
    /\ Len(requests) = 2
    /\ ReturnedCatalog(1)
    /\ requests[2].endpoint = "connections/update"
    /\ result.exc = "none"

(***************************************************************************)
(* Further properties of the tasks (Spec)                                  *)
(***************************************************************************)

\* run r's git clone succeeds in this step
CloneSucceeds(r) ==
    /\ pc[r] = "c_clone"
    /\ pc'[r] # "c_clone"
    /\ Last(calls'[r]).res = "ok"

DifferInTokenOnly(p, q) ==
    /\ kind[p] = "clone" /\ kind[q] = "clone"
    /\ pc[p] = "done" /\ pc[q] = "done"
    /\ calls[p] = calls[q]
    /\ token[p] # None /\ token[q] # None /\ token[p] # token[q]

\* C18: the token never reaches a progress event or a log record: two runs
\* of clone_github_repo that differ only in the value of the token have the
\* same events and the same log records, whether the clone succeeds or
\* fails.
C18_TokenNotObservable ==
    \A p, q \in Runs :
        DifferInTokenOnly(p, q) =>
            events[p] = events[q] /\ CloneLog(p) = CloneLog(q)

\* the positions in run r's calls of the calls of op
CallsOf(r, op) == {i \in 1..Len(calls[r]) : calls[r][i].op = op}
\* the positions of the dbt process invocations
ProcessCalls(r) == {i \in 1..Len(calls[r]) : IsStepCall(calls[r][i])}
\* run r ended at one of the two prerequisite checks
FailedPrerequisite(r) ==
    /\ events[r] # <<>>
    /\ Last(events[r]).message \in {"need to set up a dbt workspace first",
                                    "need to set up a dbt cli profile first"}

\* C20: in a run of run_dbt_commands the profile file is written at most
\* once, after the profile block was fetched in that run and with the
\* profile fetched; a dbt process is invoked only after exactly one such
\* write, which is made only when both prerequisite checks have passed; a
\* run that ends 'failed' at a prerequisite check fetched no profile, wrote
\* no file and invoked no process.
C20_ProfileWrittenOnceBeforePipeline ==
    \A r \in Runs :
        kind[r] = "dbt" =>
            /\ Cardinality(CallsOf(r, "write profile")) <= 1
            /\ Cardinality(CallsOf(r, "fetch profile")) <= 1
            /\ \A i \in CallsOf(r, "write profile") :
                  /\ i = 2
                  /\ calls[r][1].op = "fetch profile" /\ calls[r][1].res = "ok"
                  /\ calls[r][i].res = "ok" => calls[r][i].out = calls[r][1].out
            /\ \A i \in ProcessCalls(r) :
                  /\ i > 2
                  /\ calls[r][2].op = "write profile" /\ calls[r][2].res = "ok"
            /\ FailedPrerequisite(r) =>
                  /\ calls[r] = <<>>
                  /\ pc[r] = "done"
                  /\ Last(events[r]).status = "failed"
            /\ calls[r] # <<>> =>
                  \A i \in 1..Len(events[r]) :
                      events[r][i].message \notin
                          {"need to set up a dbt workspace first",
                           "need to set up a dbt cli profile first"}

\* a run of run_dbt_commands fetched profile p2, wrote it and then ran the
\* three dbt processes to completion, while the other run stayed idle
C20_Witness ==
    \E r \in Runs :
        /\ kind[r] = "dbt"
        /\ pc[r] = "done"
        /\ Len(calls[r]) = 5
        /\ calls[r][1] = [op |-> "fetch profile", res |-> "ok", out |-> <<"p2">>]
        /\ calls[r][2] = [op |-> "write profile", res |-> "ok", out |-> <<"p2">>]
        /\ \A i \in 3..5 : IsStepCall(calls[r][i]) /\ calls[r][i].res = "ok"
        /\ <<"profiles.yml", "p2">> \in files
        /\ Last(events[r]).status = "completed"
        /\ \A q \in Runs \ {r} : pc[q] = "idle"

\* the history of a setup_dbtworkspace run holds the 'completed' event
SetupCompleted(r) ==
    /\ kind[r] = "setup"
    /\ \E i \in 1..Len(events[r]) : events[r][i].status = "completed"
\* the positions in run r's history of the successful calls of op
Succeeded(r, op) == {i \in CallsOf(r, op) : calls[r][i].res = "ok"}
\* the positions of the org.save() that wrote the link to the run's own OrgDbt
LinkedOwnDbt(r) == {i \in Succeeded(r, "org.save") : calls[r][i].out[2] = r}
\* every position of a is before every position of b, and both happened
Before(a, b) == a # {} /\ b # {} /\ \A i \in a : \A j \in b : i < j

\* C22: in every reachable state, a setup_dbtworkspace run whose history
\* holds the 'completed' event has, in this order and all before that event
\* (which is the last of its history and adds no call): cloned successfully,
\* saved a new OrgDbt record, written the organization's dbt link to that
\* record and, when an access token was supplied, deleted the old token and
\* then saved the new one in the secret store; no call of the run failed.
C22_CompletedAfterAllSteps ==
    \A r \in Runs :
        SetupCompleted(r) =>
            /\ Last(events[r]).status = "completed"
            /\ \A i \in 1..Len(calls[r]) : calls[r][i].res = "ok"
            /\ r \in orgdbts
            /\ Before(Succeeded(r, "git clone"), Succeeded(r, "dbt.save"))
            /\ Before(Succeeded(r, "dbt.save"), LinkedOwnDbt(r))
            /\ IF token[r] # None
                 THEN /\ Before(LinkedOwnDbt(r), Succeeded(r, "delete_github_token"))
                      /\ Before(Succeeded(r, "delete_github_token"),
                                Succeeded(r, "save_github_token"))
                 ELSE /\ CallsOf(r, "delete_github_token") = {}
                      /\ CallsOf(r, "save_github_token") = {}

\* a setup run with an access token completed while the other run, a setup
\* too, was under way
C22_Witness ==
    \E r \in Runs :
        /\ SetupCompleted(r)
        /\ token[r] = "tok"
        /\ Succeeded(r, "save_github_token") # {}
        /\ \E q \in Runs \ {r} : kind[q] = "setup" /\ pc[q] \notin {"idle", "done", "crashed"}

(***************************************************************************)
(* Properties of the periodic sweeps (SweepSpec)                           *)
(***************************************************************************)

\* the times at which a lock can have been taken
LockTimes == {k * ClockStep : k \in 0..((LockPeriods * SweepPeriod) \div ClockStep)}
\* the lock rows that can exist
BlockLockRows == [id : SweptBlockIds, locked_at : LockTimes]
TaskLockRows == [id : SweptTaskIds, locked_at : LockTimes]
\* the age of a lock
Age(l) == now - l.locked_at
\* the sweeps of the current period have run
PeriodSwept == due = {}

\* C21: with both sweeps sent every 60 seconds, every block lock and every
\* task lock that is not released is eventually deleted, whether or not its
\* holder has finished, and once the sweeps of a period have run no lock is
\* older than 3600 + 60 seconds.
C21_StaleLocksAreSwept ==
    /\ \A l \in BlockLockRows : (l \in blocklocks) ~> (l \notin blocklocks)
    /\ \A l \in TaskLockRows : (l \in tasklocks) ~> (l \notin tasklocks)
    /\ [](PeriodSwept =>
            \A l \in blocklocks \cup tasklocks : Age(l) <= OneHour + SweepPeriod)

\* a sweep the beat sent has deleted a block lock whose holder had finished
\* without releasing it, half a period after the lock became an hour old,
\* and the sweeps of the period have run
C21_Witness ==
    /\ PeriodSwept
    /\ swept.kind = "block"
    /\ swept.at = now
    /\ \E l \in swept.deleted :
          /\ l.id \in finished
          /\ Age(l) = OneHour + ClockStep
    /\ blocklocks = {}

====
